---- MODULE Spec2Model ----
(***************************************************************************)
(* The OAuth callback page of the "connect account" flow.                  *)
(*                                                                         *)
(* The repository holds two copies of the OAuthCallback component:         *)
(*   "tsx"     src/src/components/OAuthCallback.tsx  (upsert on            *)
(*             user_id,platform)                                           *)
(*   "part001" src/unnamed/part_001  (select by user, platform, handle,    *)
(*             then update or insert)                                      *)
(* impl says which copy is mounted; it is chosen once and never changes.   *)
(*                                                                         *)
(* Every await of handleOAuthCallback is a yield point: an action named    *)
(* ...Return models the arrival of the awaited response together with the  *)
(* synchronous code that runs up to the next await.  A response of the     *)
(* session, token, profile or table interface is any of the outcomes the  *)
(* handler distinguishes.  The table keeps the rows it is given: it        *)
(* enforces no uniqueness on (user_id, platform, account_handle); the     *)
(* upsert's conflict target is (user_id, platform).                        *)
(***************************************************************************)
EXTENDS Integers, Sequences, FiniteSets, TLC

\* ---- bounds ----
MaxRuns == 2             \* runs of handleOAuthCallback in one behaviour

\* ---- inputs ----
Null == "null"           \* JS null / undefined / absent, in a string field
NoUser == "none"         \* no user
NoExpiry == 0            \* token_expires_at: null
DbDefault == 0           \* updated_at of a row written without one
Users == {"u1", "u2"}

Supported == {"twitter", "linkedin", "instagram", "facebook", "tiktok"}
Platforms == Supported \cup {"mastodon", ""}

\* window.location: query parameters (the empty string is an absent or empty
\* parameter, both falsy) and the last path segment
Urls ==
  {[code |-> "abc", state |-> "xyz", error |-> "", platform |-> p] : p \in Platforms}
  \cup {[code |-> c, state |-> s, error |-> e, platform |-> "twitter"] :
          c \in {"", "abc"}, s \in {"", "xyz"}, e \in {"", "access_denied"}}

\* localStorage oauth_supabase_session_<platform>: absent, not JSON, or the
\* snapshot of a user's session
NoSnapshot == "absent"
BadSnapshot == "{not json"
Snapshots == {NoSnapshot, BadSnapshot} \cup Users

\* sessionStorage oauth_display_name_<platform>: absent ("") or a hint
DisplayNames == {"", "Janey"}

\* responses of exchangeCodeForToken (refresh_token "" and expires_in 0: absent)
TokenDatas ==
  { [access_token |-> "tok", refresh_token |-> "", expires_in |-> 3600],
    [access_token |-> "tok2", refresh_token |-> "ref2", expires_in |-> 0] }
NoToken == [access_token |-> "", refresh_token |-> "", expires_in |-> 0]

\* bodies of the platforms' "who am I" responses
ProfileResponses(platform) ==
  CASE platform = "twitter" ->
         { [name |-> "Jane", username |-> "jane_d"],
           [name |-> "", username |-> "jd2"] }
    [] platform = "linkedin" ->
         { [localizedFirstName |-> "Jane", localizedLastName |-> "Doe", id |-> "li1"] }
    [] platform = "instagram" ->
         { [username |-> "jane_ig"] }
    [] platform = "facebook" ->
         { [name |-> "Jane Doe", id |-> "fb1"] }
    [] platform = "tiktok" ->
         { [display_name |-> "Jane T", open_id |-> "tt1"] }
    [] OTHER -> { [name |-> "x"] }

NoInfo == [name |-> "", handle |-> ""]

VARIABLES
  impl,             \* which copy of the component is mounted
  url,              \* window.location of the current page load
  opener,           \* window.opener is set
  session,          \* the backend's active session: its user, or NoUser
  savedSession,     \* localStorage oauth_supabase_session_<platform>
  displayNameHint,  \* sessionStorage oauth_display_name_<platform>
  oauth_success,    \* platforms with a localStorage oauth_success_<platform> key
  social_accounts,  \* the rows of the social_accounts table
  nextId,           \* the next row id the table assigns
  started,          \* runs of handleOAuthCallback started so far; the clock
  timer,            \* the effect's 100 ms timer is pending
  runs,             \* the runs of handleOAuthCallback on this page load
  status,           \* useState status
  message,          \* useState message
  calls,            \* interface calls issued on this page load
  displayTimers,    \* pending 2000 ms timers set after success
  displayFired,     \* a 2000 ms timer has fired on this page load
  events,           \* what the page did to its windows, in order
  rerun             \* history: some page load has run the handler more than once

vars == << impl, url, opener, session, savedSession, displayNameHint,
           oauth_success, social_accounts, nextId, started, timer,
           runs, status, message, calls, displayTimers, displayFired, events, rerun >>

\* what no step of a run changes
browser == << impl, url, opener, rerun >>
storage == << savedSession, displayNameHint, oauth_success >>
table == << social_accounts, nextId >>
windowState == << displayTimers, displayFired, events >>

\* ---- helpers ----
Range(s) == { s[i] : i \in DOMAIN s }

\* the window was closed or navigated away: no script of this page runs on
Gone == "close" \in Range(events) \/ "navigate" \in Range(events)

\* Date.now(), as milliseconds: the clock advances with every run started
Now == started * 1000

\* tokenData.expires_in ? new Date(Date.now() + expires_in * 1000) : null
ExpiresAt(tokenData) ==
  IF tokenData.expires_in # 0 THEN Now + tokenData.expires_in * 1000 ELSE NoExpiry

\* x || null
OrNull(x) == IF x # "" THEN x ELSE Null

NewRun ==
  [ pc |-> "start", currentUser |-> NoUser, tokenData |-> NoToken,
    profile |-> << >>, accountInfo |-> NoInfo, storedDisplayName |-> "",
    existingAccount |-> 0,
    parsedSession |-> NoUser,
    foundSnapshot |-> FALSE, exchanged |-> FALSE, outcome |-> "", wrote |-> "none" ]

\* the catch block of handleOAuthCallback: the run is over, its locals are gone
Caught(r) ==
  [NewRun EXCEPT !.pc = "done", !.outcome = "error",
                 !.foundSnapshot = r.foundSnapshot, !.exchanged = r.exchanged]

InFlight == { i \in DOMAIN runs : runs[i].pc # "done" }

SetRun(i, r) == IF i \in DOMAIN runs THEN [runs EXCEPT ![i] = r] ELSE Append(runs, r)

\* run i goes on as r, with the component's status and message as given
Step(i, r, st, msg, issued) ==
  /\ runs' = SetRun(i, r)
  /\ status' = st
  /\ message' = msg
  /\ calls' = calls \cup issued

\* an exception reaches the catch block: setStatus('error'), setMessage
Throw(i, r, msg, issued) == Step(i, Caught(r), "error", msg, issued)

\* the run issues a call and awaits its response
Await(i, r, pc, msg, issued) == Step(i, [r EXCEPT !.pc = pc], status, msg, issued)

NotLoggedIn == "You are not logged in"

\* ---- fetchAccountInfo ----
\* (mutant) the first switch without its throwing default: any other platform
\* is fetched from a generic endpoint
fetchAccountInfoUrl_NoDefault(platform) ==
  CASE platform = "twitter" -> "https://api.twitter.com/2/users/me"
    [] platform = "linkedin" -> "https://api.linkedin.com/v2/me"
    [] platform = "instagram" -> "https://graph.instagram.com/me?fields=id,username"
    [] platform = "facebook" -> "https://graph.facebook.com/me?fields=id,name"
    [] platform = "tiktok" -> "https://open-api.tiktok.com/user/info/?fields=open_id,union_id,avatar_url,display_name"
    [] OTHER -> "https://api.example.com/me"

\* the first switch: the endpoint, or "" where the default branch throws
fetchAccountInfoUrl(platform) ==
  CASE platform = "twitter" -> "https://api.twitter.com/2/users/me"
    [] platform = "linkedin" -> "https://api.linkedin.com/v2/me"
    [] platform = "instagram" -> "https://graph.instagram.com/me?fields=id,username"
    [] platform = "facebook" -> "https://graph.facebook.com/me?fields=id,name"
    [] platform = "tiktok" -> "https://open-api.tiktok.com/user/info/?fields=open_id,union_id,avatar_url,display_name"
    [] OTHER -> ""

\* (mutant) the twitter handle without its "@", the linkedin handle taken from
\* the name
fetchAccountInfo_Handles(platform, data) ==
  CASE platform = "twitter" ->
         [ name |-> IF data.name # "" THEN data.name ELSE data.username,
           handle |-> data.username ]
    [] platform = "linkedin" ->
         [ name |-> data.localizedFirstName \o " " \o data.localizedLastName,
           handle |-> data.localizedFirstName ]
    [] platform = "instagram" ->
         [ name |-> data.username, handle |-> data.username ]
    [] platform = "facebook" ->
         [ name |-> data.name, handle |-> data.name ]
    [] platform = "tiktok" ->
         [ name |-> data.display_name, handle |-> data.display_name ]
    [] OTHER -> [ name |-> "Unknown", handle |-> "Unknown" ]

\* the second switch: {name, handle} from the response body
fetchAccountInfo(platform, data) ==
  CASE platform = "twitter" ->
         [ name |-> IF data.name # "" THEN data.name ELSE data.username,
           handle |-> "@" \o data.username ]
    [] platform = "linkedin" ->
         [ name |-> data.localizedFirstName \o " " \o data.localizedLastName,
           handle |-> data.id ]
    [] platform = "instagram" ->
         [ name |-> data.username, handle |-> "@" \o data.username ]
    [] platform = "facebook" ->
         [ name |-> data.name, handle |-> data.id ]
    [] platform = "tiktok" ->
         [ name |-> data.display_name, handle |-> data.open_id ]
    [] OTHER -> [ name |-> "Unknown", handle |-> "Unknown" ]

\* ---- the social_accounts table ----
\* .select('id').eq(user_id).eq(platform).eq(account_handle)
SelectRows(user, platform, handle) ==
  { a \in social_accounts :
      a.user_id = user /\ a.platform = platform /\ a.account_handle = handle }

\* .maybeSingle(): the id of the one matching row; no data (0) when none
\* matches, and an error, which the handler does not read, when several do
MaybeSingle(rows) ==
  IF Cardinality(rows) = 1 THEN (CHOOSE a \in rows : TRUE).id ELSE 0

\* .update({...}).eq('id', id)
UpdateRow(id, tokenData) ==
  { IF a.id = id
      THEN [a EXCEPT !.access_token = tokenData.access_token,
                     !.refresh_token = OrNull(tokenData.refresh_token),
                     !.token_expires_at = ExpiresAt(tokenData),
                     !.is_connected = TRUE,
                     !.updated_at = Now]
      ELSE a : a \in social_accounts }

\* (mutant) is_connected left out of the written values
NewRow_NotConnected(id, user, platform, name, handle, tokenData) ==
  [ id |-> id, user_id |-> user, platform |-> platform,
    account_name |-> name, account_handle |-> handle,
    access_token |-> tokenData.access_token,
    refresh_token |-> OrNull(tokenData.refresh_token),
    token_expires_at |-> ExpiresAt(tokenData),
    is_connected |-> FALSE,
    updated_at |-> DbDefault ]

\* the values of .insert({...}) and .upsert({...}), with the id the table gives
NewRow(id, user, platform, name, handle, tokenData) ==
  [ id |-> id, user_id |-> user, platform |-> platform,
    account_name |-> name, account_handle |-> handle,
    access_token |-> tokenData.access_token,
    refresh_token |-> OrNull(tokenData.refresh_token),
    token_expires_at |-> ExpiresAt(tokenData),
    is_connected |-> TRUE,
    updated_at |-> DbDefault ]

\* .insert({...})
InsertRow(row) == social_accounts \cup {row}

\* .upsert({..., updated_at}, {onConflict: 'user_id,platform'}): the row of
\* this user and platform takes the new values and keeps its id; without one,
\* an insert
UpsertRow(row) ==
  LET new == [row EXCEPT !.updated_at = Now] IN
    IF \E a \in social_accounts : a.user_id = row.user_id /\ a.platform = row.platform
      THEN { IF a.user_id = row.user_id /\ a.platform = row.platform
               THEN [new EXCEPT !.id = a.id] ELSE a : a \in social_accounts }
      ELSE social_accounts \cup {new}

\* ---- the component ----
Init ==
  /\ impl \in {"tsx", "part001"}
  /\ url \in Urls
  /\ opener \in BOOLEAN
  /\ session \in {NoUser} \cup Users
  /\ savedSession \in Snapshots
  /\ displayNameHint \in DisplayNames
  /\ oauth_success = {}
  /\ social_accounts = {}
  /\ nextId = 1
  /\ started = 0
  /\ timer = TRUE
  /\ runs = << >>
  /\ status = "loading"
  /\ message = "Processing authentication..."
  /\ calls = {}
  /\ displayTimers = 0
  /\ displayFired = FALSE
  /\ events = << >>
  /\ rerun = FALSE

\* the window is gone and a later connect opens the callback page again: the
\* component mounts anew; the table and the oauth_success_* keys stay
PageLoad ==
  /\ Gone
  /\ started < MaxRuns
  /\ url' \in Urls
  /\ session' \in {NoUser} \cup Users
  /\ savedSession' \in Snapshots
  /\ displayNameHint' \in DisplayNames
  /\ timer' = TRUE
  /\ runs' = << >>
  /\ status' = "loading"
  /\ message' = "Processing authentication..."
  /\ calls' = {}
  /\ displayTimers' = 0
  /\ displayFired' = FALSE
  /\ events' = << >>
  /\ UNCHANGED << impl, opener, oauth_success, table, started, rerun >>

\* useEffect(..., [user]): user changed, so the cleanup clears the timer and the
\* effect sets a new one
UserChanged ==
  /\ ~Gone
  /\ started < MaxRuns
  /\ timer' = TRUE
  /\ UNCHANGED << browser, session, storage, table, started, runs, status,
                  message, calls, windowState >>

\* (mutant) the error parameter counts only when no code came with it
PlatformReportedError_NoCodeOnly == url.error # "" /\ url.code = ""

\* if (error)
PlatformReportedError == url.error # ""

\* (mutant) if (!code && !state)
MissingAuthorizationParams_Both == url.code = "" /\ url.state = ""

\* if (!code || !state)
MissingAuthorizationParams == url.code = "" \/ url.state = ""

\* the 100 ms timer fires: handleOAuthCallback runs up to its first await
handleOAuthCallback ==
  /\ timer
  /\ ~Gone
  /\ timer' = FALSE
  /\ started' = started + 1
  /\ rerun' = (rerun \/ runs # << >>)
  /\ LET i == Len(runs) + 1 IN
       IF PlatformReportedError
         THEN Throw(i, NewRun, url.error, {})
       ELSE IF MissingAuthorizationParams
         THEN Throw(i, NewRun, "Missing authorization code or state", {})
       ELSE IF url.platform = ""
         THEN Throw(i, NewRun, "Platform not specified", {})
       ELSE Await(i, NewRun, "getSession",
                  IF impl = "tsx" THEN "Connecting" ELSE message, {"getSession"})
  /\ UNCHANGED << impl, url, opener, session, storage, table, windowState >>

\* a user identity was obtained: exchangeCodeForToken(platform, code, state)
CallExchange(i, r) ==
  Await(i, [r EXCEPT !.exchanged = TRUE], "exchange", "Connecting", {"exchange"})

\* (mutant) part_001 without `if (!currentUser) throw`: with neither a session
\* nor a snapshot the run goes on to the exchange
GetSessionReturn_part001_NoUserCheck(i) ==
  /\ impl = "part001"
  /\ ~Gone
  /\ runs[i].pc = "getSession"
  /\ LET r == runs[i] IN
       IF session # NoUser
         THEN CallExchange(i, [r EXCEPT !.currentUser = session])
       ELSE IF savedSession = NoSnapshot
         THEN CallExchange(i, r)
       ELSE IF savedSession = BadSnapshot
         THEN Throw(i, [r EXCEPT !.foundSnapshot = TRUE], NotLoggedIn, {"getItem"})
       ELSE Await(i, [r EXCEPT !.foundSnapshot = TRUE, !.parsedSession = savedSession],
                  "setSession", message, {"getItem", "setSession"})
  /\ UNCHANGED << browser, session, storage, table, started, timer, windowState >>

\* part_001: getSession() returns; without a session the snapshot is read
GetSessionReturn_part001(i) ==
  /\ impl = "part001"
  /\ ~Gone
  /\ runs[i].pc = "getSession"
  /\ LET r == runs[i] IN
       IF session # NoUser
         THEN CallExchange(i, [r EXCEPT !.currentUser = session])
       ELSE IF savedSession = NoSnapshot
         THEN Throw(i, r, NotLoggedIn, {"getItem"})
       ELSE IF savedSession = BadSnapshot
         \* JSON.parse throws into the inner catch; currentUser stays null
         THEN Throw(i, [r EXCEPT !.foundSnapshot = TRUE], NotLoggedIn, {"getItem"})
       ELSE Await(i, [r EXCEPT !.foundSnapshot = TRUE, !.parsedSession = savedSession],
                  "setSession", message, {"getItem", "setSession"})
  /\ UNCHANGED << browser, session, storage, table, started, timer, windowState >>

\* part_001: setSession() returns or throws; removeItem follows a return only
SetSessionReturn_part001(i) ==
  /\ impl = "part001"
  /\ ~Gone
  /\ runs[i].pc = "setSession"
  /\ \E res \in {"ok", "error", "throw"} :
       LET r == runs[i] IN
         CASE res = "ok" ->
                /\ CallExchange(i, [r EXCEPT !.currentUser = r.parsedSession])
                /\ session' = r.parsedSession
                /\ savedSession' = NoSnapshot
           [] res = "error" ->
                /\ Throw(i, r, NotLoggedIn, {})
                /\ savedSession' = NoSnapshot
                /\ UNCHANGED session
           [] res = "throw" ->
                /\ Throw(i, r, NotLoggedIn, {})
                /\ UNCHANGED << session, savedSession >>
  /\ UNCHANGED << browser, displayNameHint, oauth_success, table, started,
                  timer, windowState >>

\* OAuthCallback.tsx: getSession() returns; without a session the snapshot is read
GetSessionReturn_tsx(i) ==
  /\ impl = "tsx"
  /\ ~Gone
  /\ runs[i].pc = "getSession"
  /\ LET r == runs[i] IN
       IF session # NoUser
         THEN CallExchange(i, [r EXCEPT !.currentUser = session])
       ELSE IF savedSession = NoSnapshot
         THEN Throw(i, r, NotLoggedIn, {"getItem"})
       ELSE IF savedSession = BadSnapshot
         \* JSON.parse throws into the handler's catch
         THEN Throw(i, [r EXCEPT !.foundSnapshot = TRUE], "Unexpected token", {"getItem"})
       ELSE Await(i, [r EXCEPT !.foundSnapshot = TRUE, !.parsedSession = savedSession],
                  "setSession", message, {"getItem", "setSession"})
  /\ UNCHANGED << browser, session, storage, table, started, timer, windowState >>

\* OAuthCallback.tsx: setSession() returns or throws; the snapshot stays
SetSessionReturn_tsx(i) ==
  /\ impl = "tsx"
  /\ ~Gone
  /\ runs[i].pc = "setSession"
  /\ \E res \in {"ok", "error", "throw"} :
       LET r == runs[i] IN
         CASE res = "ok" ->
                /\ CallExchange(i, [r EXCEPT !.currentUser = r.parsedSession])
                /\ session' = r.parsedSession
           [] res = "error" ->
                /\ Throw(i, r, NotLoggedIn, {})
                /\ UNCHANGED session
           [] res = "throw" ->
                /\ Throw(i, r, "setSession failed", {})
                /\ UNCHANGED session
  /\ UNCHANGED << browser, storage, table, started, timer, windowState >>

\* exchangeCodeForToken returns or throws; fetchAccountInfo runs up to its fetch
ExchangeReturn(i) ==
  /\ ~Gone
  /\ runs[i].pc = "exchange"
  /\ \E res \in {NoToken} \cup TokenDatas :
       LET r == runs[i] IN
         IF res = NoToken
           THEN Throw(i, r, "Token exchange failed", {})
         ELSE IF fetchAccountInfoUrl(url.platform) = ""
           THEN Throw(i, [r EXCEPT !.tokenData = res], "Unsupported platform", {})
         ELSE Await(i, [r EXCEPT !.tokenData = res], "fetch", message, {"fetch"})
  /\ UNCHANGED << browser, session, storage, table, started, timer, windowState >>

\* part_001: the profile response arrives; the display hints are read and
\* removed, and the row of (user, platform, handle) is looked up
FetchReturn_part001(i) ==
  /\ impl = "part001"
  /\ ~Gone
  /\ runs[i].pc = "fetch"
  /\ \E ok \in BOOLEAN, data \in ProfileResponses(url.platform) :
       LET r == runs[i] IN
         IF ~ok
           THEN /\ Throw(i, r, "Failed to fetch account info", {})
                /\ UNCHANGED displayNameHint
           ELSE /\ Await(i, [r EXCEPT !.profile = data,
                                      !.accountInfo = fetchAccountInfo(url.platform, data),
                                      !.storedDisplayName = displayNameHint],
                         "select", message, {"select"})
                /\ displayNameHint' = ""
  /\ UNCHANGED << browser, session, savedSession, oauth_success, table,
                  started, timer, windowState >>

\* OAuthCallback.tsx: the profile response arrives; the upsert is issued
FetchReturn_tsx(i) ==
  /\ impl = "tsx"
  /\ ~Gone
  /\ runs[i].pc = "fetch"
  /\ \E ok \in BOOLEAN, data \in ProfileResponses(url.platform) :
       LET r == runs[i] IN
         IF ~ok
           THEN Throw(i, r, "Failed to fetch account info", {})
           ELSE Await(i, [r EXCEPT !.profile = data,
                                   !.accountInfo = fetchAccountInfo(url.platform, data)],
                      "upsert", message, {"upsert"})
  /\ UNCHANGED << browser, session, storage, table, started, timer, windowState >>

\* setStatus('success') and the 2000 ms timer
Succeed(i, r) ==
  /\ Step(i, [r EXCEPT !.pc = "done", !.outcome = "success"], "success",
          "Successfully connected", {})
  /\ displayTimers' = displayTimers + 1

\* part_001: the select returns; only its data is read, so a failed select
\* looks like no row
SelectReturn(i) ==
  /\ impl = "part001"
  /\ ~Gone
  /\ runs[i].pc = "select"
  /\ \E ok \in BOOLEAN :
       LET r == runs[i]
           existingAccount ==
             IF ok
               THEN MaybeSingle(SelectRows(r.currentUser, url.platform,
                                           r.accountInfo.handle))
               ELSE 0
       IN IF existingAccount # 0
            THEN Await(i, [r EXCEPT !.existingAccount = existingAccount],
                       "update", message, {"update"})
            ELSE Await(i, r, "insert", message, {"insert"})
  /\ UNCHANGED << browser, session, storage, table, started, timer, windowState >>

\* part_001: the update returns
UpdateReturn(i) ==
  /\ impl = "part001"
  /\ ~Gone
  /\ runs[i].pc = "update"
  /\ \E ok \in BOOLEAN :
       LET r == runs[i] IN
         IF ok
           THEN /\ social_accounts' = UpdateRow(r.existingAccount, r.tokenData)
                /\ Succeed(i, [r EXCEPT !.wrote = "update"])
           ELSE /\ Throw(i, r, "update failed", {})
                /\ UNCHANGED << social_accounts, displayTimers >>
  /\ UNCHANGED << browser, session, storage, nextId, started, timer,
                  displayFired, events >>

\* part_001: the insert returns
InsertReturn(i) ==
  /\ impl = "part001"
  /\ ~Gone
  /\ runs[i].pc = "insert"
  /\ \E ok \in BOOLEAN :
       LET r == runs[i] IN
         IF ok
           THEN /\ social_accounts' =
                     InsertRow(NewRow(nextId, r.currentUser, url.platform,
                                      IF r.storedDisplayName # ""
                                        THEN r.storedDisplayName
                                        ELSE r.accountInfo.name,
                                      r.accountInfo.handle, r.tokenData))
                /\ nextId' = nextId + 1
                /\ Succeed(i, [r EXCEPT !.wrote = "insert", !.existingAccount = nextId])
           ELSE /\ Throw(i, r, "insert failed", {})
                /\ UNCHANGED << table, displayTimers >>
  /\ UNCHANGED << browser, session, storage, started, timer,
                  displayFired, events >>

\* OAuthCallback.tsx: the upsert returns; on success oauth_success_<platform>
\* is stored
UpsertReturn(i) ==
  /\ impl = "tsx"
  /\ ~Gone
  /\ runs[i].pc = "upsert"
  /\ \E ok \in BOOLEAN :
       LET r == runs[i]
           row == NewRow(nextId, r.currentUser, url.platform, r.accountInfo.name,
                         r.accountInfo.handle, r.tokenData)
       IN IF ok
            THEN /\ social_accounts' = UpsertRow(row)
                 /\ nextId' = IF \E a \in UpsertRow(row) : a.id = nextId
                                THEN nextId + 1 ELSE nextId
                 /\ oauth_success' = oauth_success \cup {url.platform}
                 /\ Succeed(i, [r EXCEPT !.wrote = "upsert"])
            ELSE /\ Throw(i, r, "Failed to save account connection", {})
                 /\ UNCHANGED << table, oauth_success, displayTimers >>
  /\ UNCHANGED << browser, session, savedSession, displayNameHint, started,
                  timer, displayFired, events >>

\* OAuthCallback.tsx: the 2000 ms timer fires
DisplayTimeout_tsx ==
  /\ impl = "tsx"
  /\ ~Gone
  /\ displayTimers > 0
  /\ displayTimers' = displayTimers - 1
  /\ displayFired' = TRUE
  /\ events' = events \o (IF opener THEN << "postMessage", "close" >>
                                    ELSE << "navigate" >>)
  /\ UNCHANGED << browser, session, storage, table, started, timer, runs,
                  status, message, calls >>

\* part_001: the 2000 ms timer fires
DisplayTimeout_part001 ==
  /\ impl = "part001"
  /\ ~Gone
  /\ displayTimers > 0
  /\ displayTimers' = displayTimers - 1
  /\ displayFired' = TRUE
  /\ events' = events \o << "close" >>
                      \o (IF opener THEN << "postMessage" >> ELSE << >>)
  /\ UNCHANGED << browser, session, storage, table, started, timer, runs,
                  status, message, calls >>

\* the "Close Window" button of the error view
CloseWindow ==
  /\ ~Gone
  /\ status = "error"
  /\ events' = Append(events, "close")
  /\ UNCHANGED << browser, session, storage, table, started, timer, runs,
                  status, message, calls, displayTimers, displayFired >>

Next ==
  \/ PageLoad
  \/ UserChanged
  \/ handleOAuthCallback
  \/ \E i \in DOMAIN runs : GetSessionReturn_part001(i)
  \/ \E i \in DOMAIN runs : SetSessionReturn_part001(i)
  \/ \E i \in DOMAIN runs : GetSessionReturn_tsx(i)
  \/ \E i \in DOMAIN runs : SetSessionReturn_tsx(i)
  \/ \E i \in DOMAIN runs : ExchangeReturn(i)
  \/ \E i \in DOMAIN runs : FetchReturn_part001(i)
  \/ \E i \in DOMAIN runs : FetchReturn_tsx(i)
  \/ \E i \in DOMAIN runs : SelectReturn(i)
  \/ \E i \in DOMAIN runs : UpdateReturn(i)
  \/ \E i \in DOMAIN runs : InsertReturn(i)
  \/ \E i \in DOMAIN runs : UpsertReturn(i)
  \/ DisplayTimeout_tsx
  \/ DisplayTimeout_part001
  \/ CloseWindow

Spec == Init /\ [][Next]_vars


\* ---- what the claims speak of ----
SameKey(a, b) ==
  /\ a.user_id = b.user_id
  /\ a.platform = b.platform
  /\ a.account_handle = b.account_handle

\* this step is run i's successful write: the run ends in success
Connects(i) ==
  /\ i \in DOMAIN runs
  /\ i \in DOMAIN runs'
  /\ runs[i].pc \in {"insert", "update", "upsert"}
  /\ runs'[i].outcome = "success"

\* the rows of run i's (user, platform, handle) before its write
RowsOfRun(i) ==
  SelectRows(runs[i].currentUser, url.platform, runs[i].accountInfo.handle)

OneRecordPerKey == \A a, b \in social_accounts : SameKey(a, b) => a = b

ReconnectReplacesTokens ==
  \A i \in DOMAIN runs :
    (Connects(i) /\ RowsOfRun(i) # {}) =>
      /\ Cardinality(social_accounts') = Cardinality(social_accounts)
      /\ \A a \in social_accounts' :
           (/\ a.user_id = runs[i].currentUser
            /\ a.platform = url.platform
            /\ a.account_handle = runs[i].accountInfo.handle) =>
             /\ a.access_token = runs[i].tokenData.access_token
             /\ a.refresh_token = OrNull(runs[i].tokenData.refresh_token)
             /\ a.token_expires_at = ExpiresAt(runs[i].tokenData)

\* C1: after any sequence of callback runs, one per page load, social_accounts
\* holds at most one record per (user_id, platform,
\* account_handle), and a successful callback for a tuple that already has a
\* record replaces that record's tokens and expiry and adds no record.
C1_IdempotentReconnect ==
  /\ [](~rerun => OneRecordPerKey)
  /\ [][~rerun' => ReconnectReplacesTokens]_vars

\* C2: a record of (user_id, platform, account_handle), once it exists, exists
\* with that user_id, platform and account_handle after every later step of a
\* sequence of callback runs, one per page load.
C2_NeverImplicitlyDeleted ==
  [][~rerun' =>
       \A a \in social_accounts : \E b \in social_accounts' : SameKey(a, b)]_vars

\* C3: on one page load exchangeCodeForToken is called at most once and at
\* most one run of the handler is in flight.
C3_RunsOncePerPageLoad ==
  /\ Cardinality({ i \in DOMAIN runs : runs[i].exchanged }) <= 1
  /\ Cardinality(InFlight) <= 1

\* C4: once status is success or error on a page load, no later step of that
\* page load changes it (a step out of the gone window is the next page load).
C4_StatusTerminal ==
  [][(status \in {"success", "error"} /\ ~Gone) => status' = status]_vars

\* C5: after a run that found a session snapshot in storage, the snapshot is no
\* longer in storage.
C5_SnapshotDeleted ==
  \A i \in DOMAIN runs :
    (runs[i].pc = "done" /\ runs[i].foundSnapshot) => savedSession = NoSnapshot

\* every run of this page load ended in the catch block, and no call of the
\* session, token, profile or table interfaces, nor a read of storage, was made
EndsInErrorWithoutCalls ==
  /\ calls = {}
  /\ \A i \in DOMAIN runs : runs[i].pc = "done" /\ runs[i].outcome = "error"
  /\ runs # << >> => status = "error"

\* C6: when the redirect lacks code or lacks state, the run ends in status
\* error and no get-session, set-session, token exchange, profile fetch or
\* social_accounts read or write is made.
C6_MissingParamsNoNetworkCall ==
  (url.code = "" \/ url.state = "") => EndsInErrorWithoutCalls

C6_Witness ==
  /\ url.error = ""
  /\ url.code = "" \/ url.state = ""
  /\ runs # << >>
  /\ status = "error"
  /\ message = "Missing authorization code or state"

\* C7: when the redirect carries error, also together with code and state, the
\* run ends in status error without get-session, set-session, a read of the
\* stored snapshot or the token exchange.
C7_PlatformErrorShortCircuits ==
  url.error # "" => EndsInErrorWithoutCalls /\ (runs # << >> => message = url.error)

C7_Witness ==
  /\ url.error # ""
  /\ url.code # ""
  /\ url.state # ""
  /\ runs # << >>
  /\ status = "error"

\* C8: once the display delay has passed after success, the page has posted
\* the completion message to its opener and then closed itself, or, without an
\* opener, has navigated to the application root.
C8_NotifyThenClose ==
  displayFired =>
    events = (IF opener THEN << "postMessage", "close" >> ELSE << "navigate" >>)

\* C9: a successful callback of a user who has no record adds exactly one
\* record, and that record is the user's and has is_connected = true.
C9_FirstConnectCreatesOne ==
  [][\A i \in DOMAIN runs :
       (/\ Connects(i)
        /\ ~\E a \in social_accounts : a.user_id = runs[i].currentUser) =>
         /\ social_accounts \subseteq social_accounts'
         /\ Cardinality(social_accounts') = Cardinality(social_accounts) + 1
         /\ \A a \in social_accounts' \ social_accounts :
              a.user_id = runs[i].currentUser /\ a.is_connected = TRUE]_vars

C9_Witness ==
  /\ Cardinality(social_accounts) = 1
  /\ \E i \in DOMAIN runs :
       /\ runs[i].outcome = "success"
       /\ runs[i].wrote \in {"insert", "upsert"}
       /\ \E a \in social_accounts :
            a.user_id = runs[i].currentUser /\ a.is_connected = TRUE

\* the extraction rules of the Profile Fetcher as documented
DocumentedName(platform, data) ==
  CASE platform = "twitter" -> IF data.name # "" THEN data.name ELSE data.username
    [] platform = "linkedin" -> data.localizedFirstName \o " " \o data.localizedLastName
    [] platform = "instagram" -> data.username
    [] platform = "facebook" -> data.name
    [] platform = "tiktok" -> data.display_name

DocumentedHandle(platform, data) ==
  CASE platform = "twitter" -> "@" \o data.username
    [] platform = "linkedin" -> data.id
    [] platform = "instagram" -> "@" \o data.username
    [] platform = "facebook" -> data.id
    [] platform = "tiktok" -> data.open_id

\* this step is run i's successful write and the user had no record of the
\* platform before it
FirstConnect(i) ==
  /\ Connects(i)
  /\ ~\E a \in social_accounts :
        a.user_id = runs[i].currentUser /\ a.platform = url.platform

\* C10 as claimed: the record written on a first successful connect carries the
\* account_name and the account_handle extracted by the documented rule,
\* whatever the transient storage keys hold.
C10_RecordCarriesExtractedProfile ==
  [][\A i \in DOMAIN runs :
       FirstConnect(i) =>
         \E a \in social_accounts' \ social_accounts :
           /\ a.platform = url.platform
           /\ a.account_name = DocumentedName(url.platform, runs[i].profile)
           /\ a.account_handle = DocumentedHandle(url.platform, runs[i].profile)]_vars

\* C10 as amended: the record written on a first successful connect carries the
\* account_handle extracted by the documented rule, and as account_name the
\* extracted name unless the run read a non-empty oauth_display_name_<platform>
\* hint, which is then the account_name.
C10_RecordCarriesHandleAndHintedName ==
  [][\A i \in DOMAIN runs :
       FirstConnect(i) =>
         \E a \in social_accounts' \ social_accounts :
           /\ a.platform = url.platform
           /\ a.account_name =
                (IF runs[i].storedDisplayName # ""
                   THEN runs[i].storedDisplayName
                   ELSE DocumentedName(url.platform, runs[i].profile))
           /\ a.account_handle = DocumentedHandle(url.platform, runs[i].profile)]_vars

C10_Witness ==
  /\ status = "success"
  /\ \E i \in DOMAIN runs :
       /\ runs[i].wrote = "insert"
       /\ runs[i].storedDisplayName = "Janey"
       /\ runs[i].profile = [name |-> "Jane", username |-> "jane_d"]
  /\ \E a \in social_accounts :
       /\ a.platform = "twitter"
       /\ a.account_name = "Janey"
       /\ a.account_handle = "@jane_d"
       /\ a.is_connected = TRUE

TableCalls == {"select", "insert", "update", "upsert"}

\* a step in which run i, awaiting the token exchange, goes on
AfterExchange(i) ==
  /\ i \in DOMAIN runs
  /\ i \in DOMAIN runs'
  /\ runs[i].pc = "exchange"
  /\ runs'[i].pc # "exchange"

\* C11: on a page load whose platform is none of twitter, linkedin, instagram,
\* facebook, tiktok, no profile request and no social_accounts call is ever
\* issued and no run succeeds; the run that reaches the Profile Fetcher ends
\* there in status error with the unsupported-platform message (or ended with
\* the failed exchange before it), and the table is as it was.
C11_UnsupportedPlatformFailsBeforeFetch ==
  /\ [](url.platform \notin Supported =>
          /\ "fetch" \notin calls
          /\ calls \cap TableCalls = {}
          /\ \A i \in DOMAIN runs : runs[i].outcome # "success")
  /\ [][\A i \in DOMAIN runs :
          (url.platform \notin Supported /\ AfterExchange(i)) =>
            /\ runs'[i].pc = "done"
            /\ runs'[i].outcome = "error"
            /\ status' = "error"
            /\ message' \in {"Unsupported platform", "Token exchange failed"}
            /\ calls' = calls
            /\ social_accounts' = social_accounts]_vars

C11_Witness ==
  /\ url.platform = "mastodon"
  /\ status = "error"
  /\ message = "Unsupported platform"
  /\ \E i \in DOMAIN runs : runs[i].pc = "done" /\ runs[i].exchanged
  /\ "exchange" \in calls
  /\ "fetch" \notin calls

\* the place of a run in the handler's sequence of steps
PcRank(pc) ==
  CASE pc = "start" -> 0
    [] pc = "getSession" -> 1
    [] pc = "setSession" -> 2
    [] pc = "exchange" -> 3
    [] pc = "fetch" -> 4
    [] pc \in {"select", "upsert"} -> 5
    [] pc \in {"insert", "update"} -> 6
    [] pc = "done" -> 7

\* the calls of a page load come in the order of the steps
CallsInOrder ==
  /\ "setSession" \in calls => "getSession" \in calls
  /\ "exchange" \in calls => "getSession" \in calls
  /\ "fetch" \in calls => "exchange" \in calls
  /\ calls \cap TableCalls # {} => "fetch" \in calls

\* on a page load whose only run failed, status is error and nothing is, or
\* will be, posted to the opener
FailedRunLeavesNoSignal ==
  (Len(runs) = 1 /\ runs[1].outcome = "error") =>
    /\ status = "error"
    /\ displayTimers = 0
    /\ ~displayFired
    /\ "postMessage" \notin Range(events)

\* one step of the page: every run moves forward only and a finished run stays
\* as it is; the exchange is called only by a run that holds a user; a run that
\* fails sets status error and neither writes a row, nor sets the display
\* timer, nor posts; and a row is written only by a run that succeeds
StepsInOrder ==
  /\ \A i \in DOMAIN runs \cap DOMAIN runs' :
       /\ PcRank(runs'[i].pc) >= PcRank(runs[i].pc)
       /\ runs[i].pc = "done" => runs'[i] = runs[i]
       /\ (runs[i].pc # "done" /\ runs'[i].outcome = "error") =>
            /\ status' = "error"
            /\ social_accounts' = social_accounts
            /\ displayTimers' = displayTimers
            /\ events' = events
  /\ \A i \in DOMAIN runs' :
       (runs'[i].exchanged /\ (i \notin DOMAIN runs \/ ~runs[i].exchanged)) =>
         /\ runs'[i].currentUser # NoUser
         /\ runs'[i].pc = "exchange"
  /\ social_accounts' # social_accounts => \E i \in DOMAIN runs : Connects(i)

====
